---- MODULE Spec2Model ----
(***************************************************************************)
(* Tracking-number validation of packages.js (TrackPkg): the four private  *)
(* validators _validUPS, _validFedexExpress, _validFedexGround and         *)
(* _validUSPS, and the two public functions IsTrackingNumber and           *)
(* GetTrackingURL.                                                         *)
(*                                                                         *)
(* A JavaScript string is a sequence of UTF-16 code units (naturals), so   *)
(* "1Z" is <<49, 90>> and charCodeAt(i) is the element itself.  JavaScript *)
(* indexes from 0, TLA+ sequences from 1: s.charAt(i) is s[i + 1].         *)
(***************************************************************************)
EXTENDS Integers, Sequences, FiniteSets

\* ------------------------------------------------------------------------
\* JavaScript primitives the validators use

\* The code units String.prototype.trim (and /\s/) treat as white space,
\* restricted to the ASCII ones: tab, LF, VT, FF, CR, space.
IsWhiteSpace(c) == c \in {9, 10, 11, 12, 13, 32}

\* The literal "0123456789" (ValidChars / validnumbers).
ValidChars == <<48, 49, 50, 51, 52, 53, 54, 55, 56, 57>>

\* s.charAt(i) for 0 <= i < s.length.
charAt(s, i) == s[i + 1]

\* String.prototype.indexOf for a one-character needle: the 0-based index of
\* its first occurrence at or after fromIndex, or -1.
RECURSIVE indexOfFrom(_, _, _)
indexOfFrom(str, c, fromIndex) ==
    IF fromIndex >= Len(str) THEN -1
    ELSE IF charAt(str, fromIndex) = c THEN fromIndex
    ELSE indexOfFrom(str, c, fromIndex + 1)

indexOf(str, c) == indexOfFrom(str, c, 0)

\* trim as it would be if it removed the white space in front only.
trim_LeadingOnly(s) ==
    LET keep == {i \in 1..Len(s) : ~IsWhiteSpace(s[i])}
    IN  IF keep = {} THEN <<>>
        ELSE SubSeq(s, CHOOSE i \in keep : \A j \in keep : i <= j, Len(s))

\* String.prototype.trim: white space removed from both ends.
trim(s) ==
    LET keep == {i \in 1..Len(s) : ~IsWhiteSpace(s[i])}
    IN  IF keep = {} THEN <<>>
        ELSE SubSeq(s, CHOOSE i \in keep : \A j \in keep : i <= j,
                       CHOOSE i \in keep : \A j \in keep : i >= j)

\* String.prototype.substr(start, length) for 0 <= start: at most `length`
\* characters from 0-based index start, fewer when the string ends first.
substr(s, start, length) ==
    LET last == IF start + length < Len(s) THEN start + length ELSE Len(s)
    IN  SubSeq(s, start + 1, last)

\* The % operator: the remainder takes the sign of the dividend.
JsRem(a, b) == IF a >= 0 THEN a % b ELSE -((-a) % b)

\* Number(c) / ToNumber of a one-character string: a decimal digit is its
\* value, a white-space character is 0 (the string trims to empty), anything
\* else is NaN.
Number(c) ==
    IF indexOf(ValidChars, c) # -1 THEN [nan |-> FALSE, val |-> c - 48]
    ELSE IF IsWhiteSpace(c) THEN [nan |-> FALSE, val |-> 0]
    ELSE [nan |-> TRUE, val |-> 0]

\* n == c with n a number and c a one-character string: c is converted with
\* ToNumber, and NaN equals nothing.
LooseEquals(n, c) == ~Number(c).nan /\ Number(c).val = n

\* ------------------------------------------------------------------------
\* _validUPS

\* The two early returns of _validUPS on the trimmed number: the length is
\* 18 and the first two characters are "1Z".
UPSGate(number) == ~(Len(number) # 18) /\ ~(substr(number, 0, 2) # <<49, 90>>)

\* UPSAddend as it would be if a letter at an even position were doubled as a
\* digit is.
UPSAddend_LetterDoubled(number, i) ==
    LET c == charAt(number, i)
    IN  IF (i + 1) % 2 = 0
        THEN IF indexOf(ValidChars, c) # -1
             THEN 2 * Number(c).val
             ELSE 2 * JsRem(c - 63, 10)
        ELSE IF indexOf(ValidChars, c) # -1
             THEN Number(c).val
             ELSE LET n == JsRem(c - 63, 10)
                  IN  (2 * n) - (9 * (n \div 5))

\* What one pass of the loop adds to iRunningTotal for index i of the
\* 15-character remainder.
UPSAddend(number, i) ==
    LET c == charAt(number, i)
    IN  IF (i + 1) % 2 = 0
        THEN IF indexOf(ValidChars, c) # -1
             THEN 2 * Number(c).val
             ELSE JsRem(c - 63, 10)
        ELSE IF indexOf(ValidChars, c) # -1
             THEN Number(c).val
             ELSE LET n == JsRem(c - 63, 10)
                  IN  (2 * n) - (9 * (n \div 5))

RECURSIVE UPSLoop(_, _, _)
UPSLoop(number, i, iRunningTotal) ==
    IF i < Len(number)
    THEN UPSLoop(number, i + 1, iRunningTotal + UPSAddend(number, i))
    ELSE iRunningTotal

\* iRunningTotal after the loop over the 15-character remainder.
UPSRunningTotal(number) == UPSLoop(number, 0, 0)

\* UPSCheckDigit as it would be if 10 - digit were not tried.
UPSCheckDigit_NoComplement(digit, check) ==
    IF ~LooseEquals(digit, check) /\ digit > 0
    THEN FALSE
    ELSE TRUE

\* The tail of _validUPS: digit against the check character.
UPSCheckDigit(digit, check) ==
    IF ~LooseEquals(digit, check) /\ digit > 0
    THEN LooseEquals(10 - digit, check)
    ELSE TRUE

_validUPS(arg) ==
    LET number == trim(arg)
    IN  IF ~UPSGate(number) THEN FALSE
        ELSE LET check == substr(number, 17, 1)[1]
                 rest  == substr(number, 2, 15)
                 digit == JsRem(UPSRunningTotal(rest), 10)
             IN  UPSCheckDigit(digit, check)

\* ------------------------------------------------------------------------
\* _validFedexExpress

\* The early return of _validFedexExpress on the trimmed number.
ExpressGate(number) == ~(Len(number) # 12)

\* values = [3, 1, 7]
values == <<3, 1, 7>>

\* The loop over the first 11 characters: ok is FALSE when the loop returns
\* false on a character that is no digit.
RECURSIVE ExpressLoop(_, _, _)
ExpressLoop(number, i, total) ==
    IF i < 11
    THEN LET c == charAt(number, i)
         IN  IF indexOf(ValidChars, c) = -1
             THEN [ok |-> FALSE, total |-> total]
             ELSE ExpressLoop(number, i + 1,
                              total + Number(c).val * values[(i % 3) + 1])
    ELSE [ok |-> TRUE, total |-> total]

\* ExpressCheck as it would be if a remainder of 10 were kept.
ExpressCheck_NoWrap(total) == JsRem(total, 11)

\* check = total % 11, with 10 replaced by 0.
ExpressCheck(total) ==
    LET check == JsRem(total, 11)
    IN  IF check = 10 THEN 0 ELSE check

_validFedexExpress(arg) ==
    LET number == trim(arg)
    IN  IF ~ExpressGate(number) THEN FALSE
        ELSE LET r == ExpressLoop(number, 0, 0)
             IN  IF ~r.ok THEN FALSE
                 ELSE LooseEquals(ExpressCheck(r.total), charAt(number, 11))

\* ------------------------------------------------------------------------
\* _validFedexGround

\* valid_prefixes = ["96", "00"]
valid_prefixes == {<<57, 54>>, <<48, 48>>}

\* GroundGate as it would be if the prefix were not tested.
GroundGate_AnyPrefix(number) == ~(Len(number) < 15)

\* The early return of _validFedexGround on the trimmed number.
GroundGate(number) ==
    ~(Len(number) < 15 \/ substr(number, 0, 2) \notin valid_prefixes)

\* The accumulator a character at index i of the 15-character window goes to.
GroundIsEven(i) == (15 - i) % 2 = 0

RECURSIVE GroundLoop(_, _, _, _)
GroundLoop(number, i, evenTotal, oddTotal) ==
    IF i >= 0
    THEN LET c == charAt(number, i)
         IN  IF indexOf(ValidChars, c) = -1
             THEN [ok |-> FALSE, evenTotal |-> evenTotal, oddTotal |-> oddTotal]
             ELSE IF GroundIsEven(i)
                  THEN GroundLoop(number, i - 1, evenTotal + Number(c).val, oddTotal)
                  ELSE GroundLoop(number, i - 1, evenTotal, oddTotal + Number(c).val)
    ELSE [ok |-> TRUE, evenTotal |-> evenTotal, oddTotal |-> oddTotal]

\* The two sums of the loop from index 13 down to 0.
GroundTotals(number) == GroundLoop(number, 13, 0, 0)

\* check = 10 - (total % 10) with total = evenTotal*3 + oddTotal.
GroundCheck(evenTotal, oddTotal) ==
    LET total == evenTotal * 3 + oddTotal
    IN  10 - JsRem(total, 10)

_validFedexGround(arg) ==
    LET trimmed == trim(arg)
    IN  IF ~GroundGate(trimmed) THEN FALSE
        ELSE LET number == substr(trimmed, Len(trimmed) - 15, 15)
                 t == GroundTotals(number)
             IN  IF ~t.ok THEN FALSE
                 ELSE LooseEquals(GroundCheck(t.evenTotal, t.oddTotal),
                                  charAt(number, 14))

\* ------------------------------------------------------------------------
\* _validUSPS

\* valid_prefix = ["91", "71", "73", "77", "81"]
valid_prefix == {<<57, 49>>, <<55, 49>>, <<55, 51>>, <<55, 55>>, <<56, 49>>}

\* The early return of _validUSPS on the trimmed number.
USPSGate(number) ==
    ~(Len(number) < 22 \/ substr(number, 0, 2) \notin valid_prefix
        \/ substr(number, 0, 3) = <<52, 50, 48>>)

\* USPSIsEven as it would be if the index were counted from 21.
USPSIsEven_Shifted(i) == (21 - i) % 2 = 0

\* The accumulator a character at index i of the 22-character window goes to.
USPSIsEven(i) == (22 - i) % 2 = 0

RECURSIVE USPSLoop(_, _, _, _)
USPSLoop(number, i, evenTotal, oddTotal) ==
    IF i >= 0
    THEN LET c == charAt(number, i)
         IN  IF indexOf(ValidChars, c) = -1
             THEN [ok |-> FALSE, evenTotal |-> evenTotal, oddTotal |-> oddTotal]
             ELSE IF USPSIsEven(i)
                  THEN USPSLoop(number, i - 1, evenTotal + Number(c).val, oddTotal)
                  ELSE USPSLoop(number, i - 1, evenTotal, oddTotal + Number(c).val)
    ELSE [ok |-> TRUE, evenTotal |-> evenTotal, oddTotal |-> oddTotal]

\* The two sums of the loop from index 20 down to 0.
USPSTotals(number) == USPSLoop(number, 20, 0, 0)

\* check = 10 - (total % 10) with total = evenTotal*3 + oddTotal.
USPSCheck(evenTotal, oddTotal) ==
    LET total == evenTotal * 3 + oddTotal
    IN  10 - JsRem(total, 10)

_validUSPS(arg) ==
    LET trimmed == trim(arg)
    IN  IF ~USPSGate(trimmed) THEN FALSE
        ELSE LET number == substr(trimmed, Len(trimmed) - 22, 22)
                 t == USPSTotals(number)
             IN  IF ~t.ok THEN FALSE
                 ELSE LooseEquals(USPSCheck(t.evenTotal, t.oddTotal),
                                  charAt(number, 21))

\* ------------------------------------------------------------------------
\* The public functions

\* IsTrackingNumber as it would be if FedEx Ground were not tried.
IsTrackingNumber_NoGround(number) ==
    IF _validUPS(number) THEN "ups"
    ELSE IF _validFedexExpress(number) THEN "fedex"
    ELSE IF _validUSPS(number) THEN "usps"
    ELSE "undefined"

\* IsTrackingNumber: "ups", "fedex", "usps", or "undefined" for undefined.
IsTrackingNumber(number) ==
    IF _validUPS(number) THEN "ups"
    ELSE IF _validFedexExpress(number) \/ _validFedexGround(number) THEN "fedex"
    ELSE IF _validUSPS(number) THEN "usps"
    ELSE "undefined"

\* "http://wwwapps.ups.com/tracking/tracking.cgi?tracknum="
UPSTemplate ==
    <<104, 116, 116, 112, 58, 47, 47, 119, 119, 119, 97, 112, 112, 115, 46,
      117, 112, 115, 46, 99, 111, 109, 47, 116, 114, 97, 99, 107, 105, 110,
      103, 47, 116, 114, 97, 99, 107, 105, 110, 103, 46, 99, 103, 105, 63,
      116, 114, 97, 99, 107, 110, 117, 109, 61>>

\* "http://www.fedex.com/Tracking?tracknumbers="
FedexTemplate ==
    <<104, 116, 116, 112, 58, 47, 47, 119, 119, 119, 46, 102, 101, 100, 101,
      120, 46, 99, 111, 109, 47, 84, 114, 97, 99, 107, 105, 110, 103, 63,
      116, 114, 97, 99, 107, 110, 117, 109, 98, 101, 114, 115, 61>>

\* "http://trkcnfrm1.smi.usps.com/PTSInternetWeb/InterLabelInquiry.do?strOrigTrackNum="
USPSTemplate ==
    <<104, 116, 116, 112, 58, 47, 47, 116, 114, 107, 99, 110, 102, 114, 109,
      49, 46, 115, 109, 105, 46, 117, 115, 112, 115, 46, 99, 111, 109, 47,
      80, 84, 83, 73, 110, 116, 101, 114, 110, 101, 116, 87, 101, 98, 47,
      73, 110, 116, 101, 114, 76, 97, 98, 101, 108, 73, 110, 113, 117, 105,
      114, 121, 46, 100, 111, 63, 115, 116, 114, 79, 114, 105, 103, 84, 114,
      97, 99, 107, 78, 117, 109, 61>>

\* GetTrackingURL as it would be if the trimmed number went into the URL.
GetTrackingURL_Trimmed(number) ==
    LET track == IsTrackingNumber(number)
    IN  IF track = "ups" THEN [defined |-> TRUE, str |-> UPSTemplate \o trim(number)]
        ELSE IF track = "fedex" THEN [defined |-> TRUE, str |-> FedexTemplate \o trim(number)]
        ELSE IF track = "usps" THEN [defined |-> TRUE, str |-> USPSTemplate \o trim(number)]
        ELSE [defined |-> FALSE, str |-> <<>>]

\* GetTrackingURL: undefined is [defined |-> FALSE], a string is
\* [defined |-> TRUE, str |-> the string].
GetTrackingURL(number) ==
    LET track == IsTrackingNumber(number)
    IN  IF track = "ups" THEN [defined |-> TRUE, str |-> UPSTemplate \o number]
        ELSE IF track = "fedex" THEN [defined |-> TRUE, str |-> FedexTemplate \o number]
        ELSE IF track = "usps" THEN [defined |-> TRUE, str |-> USPSTemplate \o number]
        ELSE [defined |-> FALSE, str |-> <<>>]

\* ------------------------------------------------------------------------
\* Inputs

\* The number of free body characters in front of the check character.
FreeLen == 1

\* The length of the white space put in front of and behind a number.
MaxPad == 1

\* Characters a free body position takes: "0", "7", "8", "b", "-".
BodyChars == {48, 55, 56, 98, 45}

\* Characters the last position takes: the digits and "A".
CheckChars == {48, 49, 50, 51, 52, 53, 54, 55, 56, 57, 65}

\* Fillers between the prefix and the free characters.
\* "0000000000000000000000"
Zeros == [i \in 1..22 |-> 48]
\* "1234567890123456789012"
Digits == [i \in 1..22 |-> 48 + (i % 10)]
\* "999AA10123456789012345"
Alnum == <<57, 57, 57, 65, 65, 49, 48, 49, 50, 51, 52, 53, 54, 55, 56, 57,
           48, 49, 50, 51, 52, 53>>
\* "12 4567-90123456789012"
Punct == <<49, 50, 32, 52, 53, 54, 55, 45, 57, 48, 49, 50, 51, 52, 53, 54,
           55, 56, 57, 48, 49, 50>>

\* <<prefix, length, filler>>: the numbers of that length that start with
\* the prefix, go on with the filler and end in free characters.
Templates ==
    {  \* around the UPS shape: "1Z", "1z", lengths 17..19
       <<<<49, 90>>, 18, Alnum>>, <<<<49, 90>>, 18, Zeros>>,
       <<<<49, 90>>, 18, Punct>>, <<<<49, 90>>, 17, Digits>>,
       <<<<49, 90>>, 19, Digits>>, <<<<49, 122>>, 18, Digits>>,
       \* around the FedEx Express shape: lengths 11..13
       <<<<50, 49>>, 12, Digits>>, <<<<57, 54>>, 12, Digits>>,
       <<<<49, 50>>, 11, Digits>>, <<<<49, 50>>, 13, Digits>>,
       <<<<49, 50>>, 12, Alnum>>,
       \* around the FedEx Ground shape: "96", "00", lengths 14..22
       <<<<57, 54>>, 15, Digits>>, <<<<48, 48>>, 15, Zeros>>,
       <<<<57, 54>>, 14, Digits>>, <<<<57, 54>>, 16, Digits>>,
       <<<<57, 54>>, 22, Digits>>, <<<<48, 48>>, 22, Zeros>>,
       <<<<57, 54>>, 15, Alnum>>, <<<<57, 54>>, 18, Digits>>,
       <<<<57, 49>>, 15, Digits>>,
       \* around the USPS shape: "91", "71", "73", "77", "81", lengths 21..24
       <<<<57, 49>>, 22, Digits>>, <<<<55, 49>>, 22, Zeros>>,
       <<<<55, 51>>, 22, Digits>>, <<<<55, 55>>, 22, Zeros>>,
       <<<<56, 49>>, 22, Digits>>, <<<<57, 49>>, 21, Digits>>,
       <<<<57, 49>>, 23, Digits>>, <<<<57, 49>>, 24, Zeros>>,
       <<<<52, 50>>, 22, Zeros>>, <<<<57, 49>>, 22, Punct>>,
       \* too short for every carrier
       <<<<49, 50>>, 5, Digits>> }

\* The number a template makes with the free characters and the last one.
Fill(t, free, last) ==
    t[1] \o SubSeq(t[3], 1, t[2] - 2 - FreeLen - 1) \o free \o <<last>>

\* The numbers passed in, before white space is put around them.
Cores ==
    {<<>>} \cup
    {Fill(t, free, last) :
        t \in Templates, free \in [1..FreeLen -> BodyChars], last \in CheckChars}

\* White space of length n: " ", " \t", " \t ", ...
Pad(n) == [i \in 1..n |-> IF i % 2 = 1 THEN 32 ELSE 9]

Pads == {<<>>, Pad(MaxPad)}

\* ------------------------------------------------------------------------
\* State: one call of one function of the namespace on one argument.

VARIABLES
    lead,    \* white space in front of the argument
    core,    \* the argument without the white space around it
    trail,   \* white space behind the argument
    call,    \* the function called, "none" before the call
    valid,   \* what a validator returned
    track,   \* what IsTrackingNumber returned
    url      \* what GetTrackingURL returned

vars == <<lead, core, trail, call, valid, track, url>>

\* The argument as passed.
number == lead \o core \o trail

Init ==
    /\ lead \in Pads
    /\ core \in Cores
    /\ trail \in Pads
    /\ call = "none"
    /\ valid = FALSE
    /\ track = "undefined"
    /\ url = [defined |-> FALSE, str |-> <<>>]

Call_validUPS ==
    /\ call = "none"
    /\ call' = "_validUPS"
    /\ valid' = _validUPS(number)
    /\ UNCHANGED <<lead, core, trail, track, url>>

Call_validFedexExpress ==
    /\ call = "none"
    /\ call' = "_validFedexExpress"
    /\ valid' = _validFedexExpress(number)
    /\ UNCHANGED <<lead, core, trail, track, url>>

Call_validFedexGround ==
    /\ call = "none"
    /\ call' = "_validFedexGround"
    /\ valid' = _validFedexGround(number)
    /\ UNCHANGED <<lead, core, trail, track, url>>

Call_validUSPS ==
    /\ call = "none"
    /\ call' = "_validUSPS"
    /\ valid' = _validUSPS(number)
    /\ UNCHANGED <<lead, core, trail, track, url>>

CallIsTrackingNumber ==
    /\ call = "none"
    /\ call' = "IsTrackingNumber"
    /\ track' = IsTrackingNumber(number)
    /\ UNCHANGED <<lead, core, trail, valid, url>>

CallGetTrackingURL ==
    /\ call = "none"
    /\ call' = "GetTrackingURL"
    /\ url' = GetTrackingURL(number)
    /\ UNCHANGED <<lead, core, trail, valid, track>>

Next ==
    \/ Call_validUPS
    \/ Call_validFedexExpress
    \/ Call_validFedexGround
    \/ Call_validUSPS
    \/ CallIsTrackingNumber
    \/ CallGetTrackingURL

Spec == Init /\ [][Next]_vars

\* ------------------------------------------------------------------------
\* Vocabulary of the properties, defined apart from the code's operators

IsDigit(c) == c \in 48..57
IsLetter(c) == c \in 65..90 \/ c \in 97..122
DigitOf(c) == c - 48

RECURSIVE StripLeft(_)
StripLeft(s) ==
    IF s # <<>> /\ Head(s) \in {9, 10, 11, 12, 13, 32} THEN StripLeft(Tail(s)) ELSE s

RECURSIVE StripRight(_)
StripRight(s) ==
    IF s # <<>> /\ s[Len(s)] \in {9, 10, 11, 12, 13, 32}
    THEN StripRight(SubSeq(s, 1, Len(s) - 1))
    ELSE s

\* The argument without the white space at its two ends.
Trimmed == StripRight(StripLeft(number))

NoWhiteSpace(s) == \A i \in 1..Len(s) : s[i] \notin {9, 10, 11, 12, 13, 32}

\* The first two characters of s are p.
HasPrefix(s, p) == Len(s) >= 2 /\ <<s[1], s[2]>> = p

\* The last n characters of s, for n <= Len(s).
Window(s, n) == SubSeq(s, Len(s) - n + 1, Len(s))

Validators == {"_validUPS", "_validFedexExpress", "_validFedexGround", "_validUSPS"}

\* What validator v returns for the argument s.
Returns(v, s) ==
    CASE v = "_validUPS" -> _validUPS(s)
      [] v = "_validFedexExpress" -> _validFedexExpress(s)
      [] v = "_validFedexGround" -> _validFedexGround(s)
      [] v = "_validUSPS" -> _validUSPS(s)

\* The length and prefix gate of validator v as the code applies it.
CodeGate(v, s) ==
    CASE v = "_validUPS" -> UPSGate(s)
      [] v = "_validFedexExpress" -> ExpressGate(s)
      [] v = "_validFedexGround" -> GroundGate(s)
      [] v = "_validUSPS" -> USPSGate(s)

\* The length and prefix gate of validator v as stated.
StatedGate(v, s) ==
    CASE v = "_validUPS" -> Len(s) = 18 /\ HasPrefix(s, <<49, 90>>)
      [] v = "_validFedexExpress" -> Len(s) = 12
      [] v = "_validFedexGround" ->
            Len(s) >= 15 /\ (HasPrefix(s, <<57, 54>>) \/ HasPrefix(s, <<48, 48>>))
      [] v = "_validUSPS" ->
            Len(s) >= 22 /\ \E p \in {<<57, 49>>, <<55, 49>>, <<55, 51>>,
                                      <<55, 55>>, <<56, 49>>} : HasPrefix(s, p)

\* ------------------------------------------------------------------------
\* C1: IsTrackingNumber returns the tag of the first validator that accepts,
\* in the order UPS, FedEx Express, FedEx Ground, USPS: "ups" if _validUPS
\* accepts, otherwise "fedex" if _validFedexExpress or _validFedexGround
\* accepts, otherwise "usps" if _validUSPS accepts, otherwise undefined; it
\* returns no other value.
C1_FirstAcceptingValidator ==
    call = "IsTrackingNumber" =>
        LET ups == _validUPS(number)
            fedex == _validFedexExpress(number) \/ _validFedexGround(number)
            usps == _validUSPS(number)
        IN  /\ track \in {"ups", "fedex", "usps", "undefined"}
            /\ (track = "ups") = ups
            /\ (track = "fedex") = (~ups /\ fedex)
            /\ (track = "usps") = (~ups /\ ~fedex /\ usps)
            /\ (track = "undefined") = (~ups /\ ~fedex /\ ~usps)

\* A FedEx Ground number (no Express number) classified "fedex".
C1_Witness ==
    /\ call = "IsTrackingNumber"
    /\ track = "fedex"
    /\ ~_validFedexExpress(number)
    /\ _validFedexGround(number)

\* ------------------------------------------------------------------------
\* C2: the four validators are mutually exclusive: at most one of them
\* returns true for an argument, and at most one of their length and prefix
\* gates (UPS: length 18 and "1Z"; Express: length 12; Ground: length >= 15
\* and "96" or "00"; USPS: length >= 22 and "91", "71", "73", "77" or "81")
\* lets the trimmed argument through.
C2_MutuallyExclusive ==
    /\ call = "none" =>
          \A t \in {Trimmed} :
              LET open == {v \in Validators : CodeGate(v, t)}
              IN  /\ open = {v \in Validators : StatedGate(v, t)}
                  /\ Cardinality(open) <= 1
                  /\ Cardinality({v \in Validators : Returns(v, number)}) <= 1
    /\ (call \in Validators /\ valid) =>
          \A v \in Validators \ {call} : ~Returns(v, number)

\* A FedEx Ground number long enough for USPS is accepted by its validator.
C2_Witness ==
    /\ call = "_validFedexGround"
    /\ valid
    /\ Len(Trimmed) >= 22

\* ------------------------------------------------------------------------
\* C3: _validUPS returns false unless the trimmed argument has length 18,
\* starts with "1Z" and has a digit or a letter at each of the positions
\* 2..16; an 18-character "1Z" number with punctuation in its body is
\* rejected whatever its check character.
UPSWellFormed(s) ==
    /\ Len(s) = 18
    /\ HasPrefix(s, <<49, 90>>)
    /\ \A i \in 3..17 : IsDigit(s[i]) \/ IsLetter(s[i])

\* C3: whenever _validUPS returns true the trimmed argument is well formed.
C3_RejectsUnlessGatesHold ==
    (call = "_validUPS" /\ valid) => UPSWellFormed(Trimmed)

\* ------------------------------------------------------------------------
\* C4: for a trimmed 18-character "1Z" number whose 15 body characters are
\* digits or letters, _validUPS returns true iff, with total the sum over
\* the 1-indexed body positions i of (i even: 2*d for a digit d,
\* (code - 63) mod 10 for a letter; i odd: d for a digit, 2n - 9*floor(n/5)
\* with n = (code - 63) mod 10 for a letter) and digit = total mod 10, digit
\* is 0 or the 18th character is the decimal digit digit or 10 - digit.
UPSTerm(c, i) ==
    LET n == (c - 63) % 10
    IN  IF i % 2 = 0
        THEN IF IsDigit(c) THEN 2 * DigitOf(c) ELSE n
        ELSE IF IsDigit(c) THEN DigitOf(c) ELSE 2 * n - 9 * (n \div 5)

RECURSIVE UPSTotal(_, _)
UPSTotal(body, i) ==
    IF i = 0 THEN 0 ELSE UPSTotal(body, i - 1) + UPSTerm(body[i], i)

\* total mod 10 for the 18-character number s.
UPSDigit(s) == UPSTotal(SubSeq(s, 3, 17), 15) % 10

\* C4: on a well-formed number _validUPS returns what the checksum procedure
\* gives.
C4_UPSChecksum ==
    LET t == Trimmed
    IN  (call = "_validUPS" /\ UPSWellFormed(t)) =>
            LET c == t[18]
                digit == UPSDigit(t)
            IN  valid = \/ digit = 0
                        \/ IsDigit(c) /\ DigitOf(c) = digit
                        \/ IsDigit(c) /\ DigitOf(c) = 10 - digit

\* A number with letters in its body accepted for the check character
\* 10 - digit, which is not digit.
C4_Witness ==
    LET t == Trimmed
    IN  /\ call = "_validUPS"
        /\ UPSWellFormed(t)
        /\ valid
        /\ \E i \in 3..17 : IsLetter(t[i])
        /\ UPSDigit(t) \notin {0, 5}
        /\ DigitOf(t[18]) = 10 - UPSDigit(t)

\* ------------------------------------------------------------------------
\* C5 as stated: "1Z999AA10123456784" is rejected as a UPS number, failing
\* the length-18 check: _validUPS returns false for it and IsTrackingNumber
\* does not return "ups".
Input1Z999AA10123456784 ==
    <<49, 90, 57, 57, 57, 65, 65, 49, 48, 49, 50, 51, 52, 53, 54, 55, 56, 52>>

C5_Rejected ==
    number = Input1Z999AA10123456784 =>
        /\ call = "_validUPS" => (~valid /\ Len(number) # 18)
        /\ call = "IsTrackingNumber" => track # "ups"

\* C5 amended: "1Z999AA10123456784" has 18 characters, passes the length
\* check and is accepted as a UPS number: _validUPS returns true for it and
\* IsTrackingNumber returns "ups".
C5_Accepted ==
    number = Input1Z999AA10123456784 =>
        /\ Len(number) = 18
        /\ call = "_validUPS" => valid
        /\ call = "IsTrackingNumber" => track = "ups"

C5_Witness ==
    /\ number = Input1Z999AA10123456784
    /\ call = "IsTrackingNumber"
    /\ track = "ups"

\* ------------------------------------------------------------------------
\* C6: _validFedexExpress returns true iff the trimmed argument has length
\* 12, its characters 0..10 are digits d0..d10 and its 12th character is the
\* decimal digit k, where r = (sum of d_i * w[i mod 3]) mod 11 with
\* w = [3, 1, 7] and k = 0 if r = 10, otherwise k = r.  A 12th character
\* that is no digit is never accepted.
RECURSIVE ExpressSum(_, _)
ExpressSum(s, i) ==
    IF i < 0 THEN 0
    ELSE ExpressSum(s, i - 1)
            + DigitOf(s[i + 1]) * (CASE i % 3 = 0 -> 3 [] i % 3 = 1 -> 1 [] i % 3 = 2 -> 7)

\* r for the 12-character number s.
ExpressR(s) == ExpressSum(s, 10) % 11

ExpressWellFormed(s) ==
    /\ Len(s) = 12
    /\ \A i \in 1..11 : IsDigit(s[i])

\* C6: _validFedexExpress returns true exactly for the well-formed numbers
\* that end in their check digit.
C6_ExpressChecksum ==
    LET t == Trimmed
    IN  call = "_validFedexExpress" =>
            valid = /\ ExpressWellFormed(t)
                    /\ IsDigit(t[12])
                    /\ DigitOf(t[12]) = (IF ExpressR(t) = 10 THEN 0 ELSE ExpressR(t))

\* A number whose remainder is 10 accepted with the check digit 0.
C6_Witness ==
    LET t == Trimmed
    IN  /\ call = "_validFedexExpress"
        /\ ExpressWellFormed(t)
        /\ ExpressR(t) = 10
        /\ valid

\* ------------------------------------------------------------------------
\* C7: in _validFedexGround (length >= 15, "96" or "00", 14 digits in the
\* rightmost 15 characters) and in _validUSPS (length >= 22, a USPS prefix,
\* 21 digits in the rightmost 22 characters) the check value is compared
\* modulo 10: with total = even_sum*3 + odd_sum the validator returns true
\* iff the last character is the decimal digit (10 - (total mod 10)) mod 10,
\* so a window that ends in "0" is accepted when total mod 10 = 0.

\* The sum of the digits of the window w at the distances k, k + 1, ... to
\* the left of its last character that have remainder `parity` modulo 2.
RECURSIVE DistanceSum(_, _, _)
DistanceSum(w, k, parity) ==
    IF k >= Len(w) THEN 0
    ELSE (IF k % 2 = parity THEN DigitOf(w[Len(w) - k]) ELSE 0)
            + DistanceSum(w, k + 1, parity)

\* even_sum*3 + odd_sum: the odd distances go to the even accumulator.
WindowTotal(w) == DistanceSum(w, 1, 1) * 3 + DistanceSum(w, 1, 0)

BodyIsDigits(w) == \A i \in 1..(Len(w) - 1) : IsDigit(w[i])

\* The last character of w is the check value taken modulo 10.
EndsInCheckMod10(w) ==
    /\ IsDigit(w[Len(w)])
    /\ DigitOf(w[Len(w)]) = (10 - (WindowTotal(w) % 10)) % 10

\* C7: both validators accept exactly the windows that end in the check value
\* taken modulo 10.
C7_CheckComparedMod10 ==
    LET t == Trimmed
    IN  /\ (/\ call = "_validFedexGround"
            /\ StatedGate("_validFedexGround", t)
            /\ BodyIsDigits(Window(t, 15))) =>
                valid = EndsInCheckMod10(Window(t, 15))
        /\ (/\ call = "_validUSPS"
            /\ StatedGate("_validUSPS", t)
            /\ BodyIsDigits(Window(t, 22))) =>
                valid = EndsInCheckMod10(Window(t, 22))

\* ------------------------------------------------------------------------
\* C8: classification ignores white space around the argument: for s without
\* white space and white space p, q, IsTrackingNumber(p + s + q) equals
\* IsTrackingNumber(s), and each validator returns for p + s + q what it
\* returns for s.
C8_WhitespaceInsensitive ==
    (NoWhiteSpace(core) /\ number = lead \o core \o trail) =>
        /\ call = "IsTrackingNumber" => track = IsTrackingNumber(core)
        /\ call \in Validators => valid = Returns(call, core)

\* A number with white space on both sides classified as it is without.
C8_Witness ==
    /\ NoWhiteSpace(core)
    /\ lead # <<>>
    /\ trail # <<>>
    /\ call = "IsTrackingNumber"
    /\ track = "usps"
    /\ IsTrackingNumber(core) = "usps"

\* ------------------------------------------------------------------------
\* C9: GetTrackingURL(s) returns undefined iff IsTrackingNumber(s) returns
\* undefined; otherwise it returns the template of the carrier
\* IsTrackingNumber(s) returned followed by s as passed: not trimmed, not
\* escaped, in its own case.
TemplateOf(tag) ==
    CASE tag = "ups" -> UPSTemplate
      [] tag = "fedex" -> FedexTemplate
      [] tag = "usps" -> USPSTemplate

C9_URLOfRawArgument ==
    call = "GetTrackingURL" =>
        LET tag == IsTrackingNumber(number)
        IN  /\ (~url.defined) = (tag = "undefined")
            /\ url.defined => url.str = TemplateOf(tag) \o lead \o core \o trail

\* A URL that keeps the white space around the number.
C9_Witness ==
    /\ call = "GetTrackingURL"
    /\ url.defined
    /\ lead # <<>>
    /\ trail # <<>>
    /\ url.str = FedexTemplate \o lead \o core \o trail

\* ------------------------------------------------------------------------
\* C10: FedEx Ground and USPS compute the same right-to-left arithmetic: the
\* body digit at distance k >= 1 to the left of the check character goes to
\* the even accumulator when k is odd and to the odd accumulator when k is
\* even; so for a 14-digit body b the check value _validFedexGround computes
\* over b is the one _validUSPS computes over seven "0" followed by b.
SevenZeros == <<48, 48, 48, 48, 48, 48, 48>>

GroundCheckOf(w) ==
    LET t == GroundTotals(w) IN GroundCheck(t.evenTotal, t.oddTotal)

USPSCheckOf(w) ==
    LET t == USPSTotals(w) IN USPSCheck(t.evenTotal, t.oddTotal)

\* The sums and the check value of _validFedexGround over the window w.
GroundAgrees(w) ==
    LET t == GroundTotals(w)
    IN  /\ t.ok
        /\ t.evenTotal = DistanceSum(w, 1, 1)
        /\ t.oddTotal = DistanceSum(w, 1, 0)
        /\ GroundCheckOf(w) = USPSCheckOf(SevenZeros \o w)

\* The sums of _validUSPS over the window w.
USPSAgrees(w) ==
    LET t == USPSTotals(w)
    IN  /\ t.ok
        /\ t.evenTotal = DistanceSum(w, 1, 1)
        /\ t.oddTotal = DistanceSum(w, 1, 0)

\* C10: both loops split the digits by the parity of their distance from the
\* check character, and the two check values agree.
C10_SameArithmetic ==
    /\ call = "_validFedexGround" =>
          \A s \in {Trimmed} : Len(s) >= 15 =>
              \A w \in {Window(s, 15)} : BodyIsDigits(w) => GroundAgrees(w)
    /\ call = "_validUSPS" =>
          \A s \in {Trimmed} : Len(s) >= 22 =>
              \A w \in {Window(s, 22)} : BodyIsDigits(w) => USPSAgrees(w)

\* A FedEx Ground number of 15 characters accepted over an even and an odd
\* sum that differ.
C10_Witness ==
    LET s == Trimmed
    IN  /\ call = "_validFedexGround"
        /\ valid
        /\ Len(s) = 15
        /\ DistanceSum(s, 1, 1) # DistanceSum(s, 1, 0)

====
